---- MODULE Spec2Model ----
(***************************************************************************)
(* Model of rets/client/decoder.py: RecordDecoder.decode, _build_decoders, *)
(* _get_decoder and the temporal decoders (_decode_datetime, _decode_time, *)
(* _decode_date).                                                          *)
(*                                                                         *)
(* Raw values are sequences of one-character strings, so that splitting,   *)
(* integer parsing and the regular expression of the temporal grammar are  *)
(* computed character by character as the code computes them.              *)
(***************************************************************************)
EXTENDS Integers, Sequences, FiniteSets, TLC

VARIABLES
    table,          \* the descriptor table handed to RecordDecoder.__init__
    metadata_map,   \* self._metadata_map
    include_tz,     \* self._include_tz
    local_tz,       \* the process's local time zone (read by datetime.astimezone)
    pc,             \* per call: "idle", "build", "decode", "returned", "raised"
    rows,           \* per call: the rows argument of decode
    fields,         \* per call: tuple(rows[0].keys()), the argument of _build_decoders
    decoders,       \* per call: the local dict field -> decoder
    pos,            \* per call: [i: index in fields, r: row index, k: index in the row]
    cur,            \* per call: the OrderedDict of the row being decoded
    out,            \* per call: the rows decoded so far (the tuple under construction)
    result,         \* per call: what decode returned or raised
    warned,         \* per call: the fields logger.warning was called with
    trace           \* per call: the calls of decode_field: field, value, decoder invoked

vars == <<table, metadata_map, include_tz, local_tz, pc, rows, fields, decoders,
          pos, cur, out, result, warned, trace>>

-----------------------------------------------------------------------------
(* Characters and numerals *)

DigitChars == <<"0", "1", "2", "3", "4", "5", "6", "7", "8", "9">>

IsDigit(c) == \E i \in 1..10 : DigitChars[i] = c

DigitVal(c) == (CHOOSE i \in 1..10 : DigitChars[i] = c) - 1

\* v[p] exists and is the character c
CharAt(v, p, c) == p >= 1 /\ p <= Len(v) /\ v[p] = c

\* v[p..p+n-1] exist and are digits: \d{n} at position p
DigitsAt(v, p, n) == p >= 1 /\ p + n - 1 <= Len(v) /\ \A i \in p..(p + n - 1) : IsDigit(v[i])

\* int() of the n digits at position p
RECURSIVE Num(_, _, _)
Num(v, p, n) == IF n = 0 THEN 0 ELSE 10 * Num(v, p, n - 1) + DigitVal(v[p + n - 1])

Pad2(n) == <<DigitChars[(n \div 10) + 1], DigitChars[(n % 10) + 1]>>

Pad4(n) == Pad2(n \div 100) \o Pad2(n % 100)

-----------------------------------------------------------------------------
(* Values and exceptions *)

NoTz == [aware |-> FALSE, off |-> 0]

NoDt == [year |-> 0, month |-> 0, day |-> 0, hour |-> 0, minute |-> 0, second |-> 0,
         microsecond |-> 0]

\* every decoded value is a record of the same shape; kind says which fields count
Val(kind) == [kind |-> kind, s |-> <<>>, l |-> <<>>, n |-> 0, e |-> 0, dt |-> NoDt, tz |-> NoTz]

NoneVal == Val("None")

StrVal(v) == [Val("str") EXCEPT !.s = v]

ListVal(l) == [Val("list") EXCEPT !.l = l]

BoolVal(b) == [Val("bool") EXCEPT !.n = IF b THEN 1 ELSE 0]

IntVal(n) == [Val("int") EXCEPT !.n = n]

\* Decimal: coefficient n and exponent e, the value n * 10^e
DecimalVal(n, e) == [Val("Decimal") EXCEPT !.n = n, !.e = e]

DatetimeVal(dt, tz) == [Val("datetime") EXCEPT !.dt = dt, !.tz = tz]

TimeVal(dt, tz) == [Val("time") EXCEPT !.dt = [dt EXCEPT !.year = 0, !.month = 0, !.day = 0],
                                       !.tz = tz]

\* the outcome of calling a decoder: a value, or the type of the exception raised
Ok(val) == [exc |-> "", val |-> val]

Raise(exc) == [exc |-> exc, val |-> NoneVal]

-----------------------------------------------------------------------------
(* datetime: the proleptic Gregorian calendar of Python's datetime module *)

MINYEAR == 1

MAXYEAR == 9999

SecondsPerDay == 86400

IsLeap(y) == y % 4 = 0 /\ (y % 100 # 0 \/ y % 400 = 0)

DaysInMonth(y, m) ==
    IF m = 2 THEN (IF IsLeap(y) THEN 29 ELSE 28)
    ELSE IF m \in {4, 6, 9, 11} THEN 30 ELSE 31

DaysBeforeYear(y) == LET p == y - 1 IN p * 365 + (p \div 4) - (p \div 100) + (p \div 400)

RECURSIVE DaysBeforeMonth(_, _)
DaysBeforeMonth(y, m) ==
    IF m = 1 THEN 0 ELSE DaysBeforeMonth(y, m - 1) + DaysInMonth(y, m - 1)

\* datetime.toordinal: 0001-01-01 is day 1
Ymd2Ord(y, m, d) == DaysBeforeYear(y) + DaysBeforeMonth(y, m) + d

MaxOrdinal == Ymd2Ord(MAXYEAR, 12, 31)

\* the month of day n (from 0) of a year, and the day in it
MonthAndDay(year, n) ==
    LET month == CHOOSE m \in 1..12 :
                     /\ DaysBeforeMonth(year, m) <= n
                     /\ n < DaysBeforeMonth(year, m) + DaysInMonth(year, m)
    IN  [year |-> year, month |-> month, day |-> n - DaysBeforeMonth(year, month) + 1]

\* the year of the day that lies n1 years, n4 four-year cycles, n100 centuries and
\* n400 400-year cycles after 0001-01-01, and n days into that year
YearAndDay(n400, n100, n4, n1, n) ==
    IF n1 = 4 \/ n100 = 4
    THEN [year |-> n400 * 400 + n100 * 100 + n4 * 4 + n1, month |-> 12, day |-> 31]
    ELSE MonthAndDay(n400 * 400 + 1 + n100 * 100 + n4 * 4 + n1, n)

\* datetime.fromordinal
Ord2Ymd(ordinal) ==
    LET n0 == ordinal - 1
        r400 == n0 % 146097
        r100 == r400 % 36524
        r4 == r100 % 1461
    IN  YearAndDay(n0 \div 146097, r400 \div 36524, r100 \div 1461, r4 \div 365, r4 % 365)

DtOk(dt) == [exc |-> "", dt |-> dt]

DtRaise(exc) == [exc |-> exc, dt |-> NoDt]

\* datetime(year, month, day, hour, minute, second, microsecond): the constructor
\* checks every field and raises ValueError
MakeDatetime(y, m, d, hh, mm, ss, us) ==
    IF /\ MINYEAR <= y /\ y <= MAXYEAR
       /\ 1 <= m /\ m <= 12
       /\ 1 <= d /\ d <= DaysInMonth(y, m)
       /\ 0 <= hh /\ hh <= 23
       /\ 0 <= mm /\ mm <= 59
       /\ 0 <= ss /\ ss <= 59
       /\ 0 <= us /\ us <= 999999
    THEN DtOk([year |-> y, month |-> m, day |-> d, hour |-> hh, minute |-> mm,
               second |-> ss, microsecond |-> us])
    ELSE DtRaise("ValueError")

\* the datetime of day ordinal and second sec of that day
DtOfOrdinal(ymd, sec, us) ==
    [year |-> ymd.year, month |-> ymd.month, day |-> ymd.day,
     hour |-> sec \div 3600, minute |-> (sec % 3600) \div 60,
     second |-> sec % 60, microsecond |-> us]

\* the datetime total seconds after midnight of day ordinal (total may be negative
\* or beyond the day); OverflowError outside 0001-01-01..9999-12-31
DtNormalize(ordinal, total, us) ==
    IF ordinal + (total \div SecondsPerDay) < 1
       \/ ordinal + (total \div SecondsPerDay) > MaxOrdinal
    THEN DtRaise("OverflowError")
    ELSE DtOk(DtOfOrdinal(Ord2Ymd(ordinal + (total \div SecondsPerDay)),
                          total % SecondsPerDay, us))

\* DtMinus with the sign of the offset mistaken: datetime + timedelta
DtMinus_added(dt, delta) ==
    DtNormalize(Ymd2Ord(dt.year, dt.month, dt.day),
                dt.hour * 3600 + dt.minute * 60 + dt.second + delta,
                dt.microsecond)

\* datetime - timedelta(seconds=delta)
DtMinus(dt, delta) ==
    DtNormalize(Ymd2Ord(dt.year, dt.month, dt.day),
                dt.hour * 3600 + dt.minute * 60 + dt.second - delta,
                dt.microsecond)

\* timedelta(hours=h, minutes=m) in seconds
Timedelta(h, m) == h * 3600 + m * 60

\* timezone(offset): the offset must lie strictly between -24h and +24h
MakeTimezone(off) ==
    IF -SecondsPerDay < off /\ off < SecondsPerDay
    THEN [exc |-> "", tz |-> [aware |-> TRUE, off |-> off]]
    ELSE [exc |-> "ValueError", tz |-> NoTz]

\* timezone.utc
UtcTz == [aware |-> TRUE, off |-> 0]

\* A local zone: its UTC offset in seconds and at most one daylight-saving gap, the
\* wall-clock interval [gap_sec, gap_sec + gap_len) of day gap_day that no clock shows.
InGap(dt, zone) ==
    /\ zone.gap_len > 0
    /\ Ymd2Ord(dt.year, dt.month, dt.day) = zone.gap_day
    /\ LET s == dt.hour * 3600 + dt.minute * 60 + dt.second
       IN  zone.gap_sec <= s /\ s < zone.gap_sec + zone.gap_len

\* naive.astimezone(): reads the value as local time and attaches the local zone.
\* CPython probes the instants t + off, t - off and t - 24h (ValueError when one has
\* no year in 1..9999, OverflowError when t - off has none); a wall-clock time inside
\* the zone's gap comes back moved out of the gap, any other time unchanged.
Astimezone(dt, zone) ==
    IF DtMinus(dt, -zone.off).exc # "" \/ DtMinus(dt, SecondsPerDay).exc # ""
    THEN DtRaise("ValueError")
    ELSE IF DtMinus(dt, zone.off).exc # ""
    THEN DtRaise("OverflowError")
    ELSE IF InGap(dt, zone) THEN DtMinus(dt, zone.gap_len) ELSE DtOk(dt)

-----------------------------------------------------------------------------
(* The temporal decoders *)

NoMatch ==
    [matched |-> FALSE, year |-> -1, month |-> -1, day |-> -1, hours |-> -1,
     minutes |-> -1, seconds |-> -1, microseconds |-> -1, z |-> FALSE,
     sign |-> "", offhours |-> -1, offminutes |-> -1, end |-> 0]

\* (\d{4})-(\d{2})-(\d{2}) at the start of v
DateGroups(v) ==
    /\ DigitsAt(v, 1, 4) /\ CharAt(v, 5, "-")
    /\ DigitsAt(v, 6, 2) /\ CharAt(v, 8, "-") /\ DigitsAt(v, 9, 2)

\* [T ](\d{2}):(\d{2}):(\d{2}) after the date
TimeGroups(v) ==
    /\ (CharAt(v, 11, "T") \/ CharAt(v, 11, " "))
    /\ DigitsAt(v, 12, 2) /\ CharAt(v, 14, ":")
    /\ DigitsAt(v, 15, 2) /\ CharAt(v, 17, ":") /\ DigitsAt(v, 18, 2)

\* \.(\d) after the time
FractionGroup(v) == TimeGroups(v) /\ CharAt(v, 20, ".") /\ DigitsAt(v, 21, 1)

\* ([+-])(\d{2}):(\d{2}) at position p
OffsetGroups(v, p) ==
    /\ (CharAt(v, p, "+") \/ CharAt(v, p, "-"))
    /\ DigitsAt(v, p + 1, 2) /\ CharAt(v, p + 3, ":") /\ DigitsAt(v, p + 4, 2)

\* m.groups(), given which optional groups took part and where the zone group starts
Groups(v, timeOK, fracOK, p, zOK, offOK) ==
    [matched |-> TRUE,
     year |-> Num(v, 1, 4), month |-> Num(v, 6, 2), day |-> Num(v, 9, 2),
     hours |-> IF timeOK THEN Num(v, 12, 2) ELSE -1,
     minutes |-> IF timeOK THEN Num(v, 15, 2) ELSE -1,
     seconds |-> IF timeOK THEN Num(v, 18, 2) ELSE -1,
     microseconds |-> IF fracOK THEN Num(v, 21, 1) ELSE -1,
     z |-> zOK,
     sign |-> IF offOK THEN v[p] ELSE "",
     offhours |-> IF offOK THEN Num(v, p + 1, 2) ELSE -1,
     offminutes |-> IF offOK THEN Num(v, p + 4, 2) ELSE -1,
     end |-> IF zOK THEN p + 1 ELSE IF offOK THEN p + 7 ELSE p]

ZoneGroups(v, timeOK, fracOK, p) ==
    Groups(v, timeOK, fracOK, p, CharAt(v, p, "Z"), OffsetGroups(v, p))

\* _datetime_regex.match(value): the groups of the longest prefix the expression
\* accepts (every optional group is greedy and nothing after it can fail), or no
\* match. A numeric group that did not take part is -1, a missing sign is "".
DatetimeRegexMatch(v) ==
    IF ~DateGroups(v) THEN NoMatch
    ELSE ZoneGroups(v, TimeGroups(v), FractionGroup(v),
                    IF FractionGroup(v) THEN 22 ELSE IF TimeGroups(v) THEN 20 ELSE 11)

\* "int(g) if g else 0" for a group g
GroupOr0(g) == IF g = -1 THEN 0 ELSE g

\* decoded.astimezone().replace(tzinfo=timezone.utc if z else timezone(offset)),
\* local being decoded.astimezone() and zoneinfo the tzinfo argument
ReplaceTzinfo(local, zoneinfo) ==
    IF local.exc # "" THEN Raise(local.exc)
    ELSE IF zoneinfo.exc # "" THEN Raise(zoneinfo.exc)
    ELSE Ok(DatetimeVal(local.dt, zoneinfo.tz))

\* decoded - offset
MinusOffset(shifted) ==
    IF shifted.exc # "" THEN Raise(shifted.exc) ELSE Ok(DatetimeVal(shifted.dt, NoTz))

\* the two returns of _decode_datetime, decoded being the datetime built from the
\* groups and offset the signed offset in seconds
WithZone(decoded, z, offset, tz_flag, zone) ==
    IF decoded.exc # "" THEN Raise(decoded.exc)
    ELSE IF tz_flag
    THEN ReplaceTzinfo(Astimezone(decoded.dt, zone),
                       IF z THEN [exc |-> "", tz |-> UtcTz] ELSE MakeTimezone(offset))
    ELSE MinusOffset(DtMinus(decoded.dt, offset))

\* _decode_datetime after the match m
FromGroups(m, tz_flag, zone) ==
    IF ~m.matched THEN Raise("AttributeError")
    ELSE WithZone(MakeDatetime(m.year, m.month, m.day, GroupOr0(m.hours),
                               GroupOr0(m.minutes), GroupOr0(m.seconds),
                               IF m.microseconds = -1 THEN 0 ELSE m.microseconds * 100000),
                  m.z,
                  IF m.sign = "-"
                  THEN -Timedelta(GroupOr0(m.offhours), GroupOr0(m.offminutes))
                  ELSE Timedelta(GroupOr0(m.offhours), GroupOr0(m.offminutes)),
                  tz_flag, zone)

\* _decode_datetime(value, include_tz); zone is the process's local zone, which
\* decoded.astimezone() reads
_decode_datetime(value, tz_flag, zone) == FromGroups(DatetimeRegexMatch(value), tz_flag, zone)

EpochPrefix == <<"1", "9", "7", "0", "-", "0", "1", "-", "0", "1", "T">>

\* decoded.time().replace(tzinfo=decoded.tzinfo)
TimeOf(decoded) ==
    IF decoded.exc # "" THEN decoded ELSE Ok(TimeVal(decoded.val.dt, decoded.val.tz))

\* _decode_time(value, include_tz)
_decode_time(value, tz_flag, zone) ==
    TimeOf(_decode_datetime(EpochPrefix \o value, tz_flag, zone))

\* the length of the month token of strptime's %m at position 6:
\* 1[0-2] | 0[1-9] | [1-9], the first alternative that matches
MonthToken(v) ==
    IF \/ (CharAt(v, 6, "1") /\ (\E c \in {"0", "1", "2"} : CharAt(v, 7, c)))
       \/ (CharAt(v, 6, "0") /\ DigitsAt(v, 7, 1) /\ ~CharAt(v, 7, "0"))
    THEN 2
    ELSE IF DigitsAt(v, 6, 1) /\ ~CharAt(v, 6, "0") THEN 1 ELSE 0

\* the length of the day token of strptime's %d at position q:
\* 3[01] | [12]\d | 0[1-9] | [1-9] | " "[1-9], the first alternative that matches
DayToken(v, q) ==
    IF \/ (CharAt(v, q, "3") /\ (\E c \in {"0", "1"} : CharAt(v, q + 1, c)))
       \/ ((CharAt(v, q, "1") \/ CharAt(v, q, "2")) /\ DigitsAt(v, q + 1, 1))
       \/ (CharAt(v, q, "0") /\ DigitsAt(v, q + 1, 1) /\ ~CharAt(v, q + 1, "0"))
    THEN 2
    ELSE IF DigitsAt(v, q, 1) /\ ~CharAt(v, q, "0") THEN 1
    ELSE IF CharAt(v, q, " ") /\ DigitsAt(v, q + 1, 1) /\ ~CharAt(v, q + 1, "0")
    THEN 2 ELSE 0

\* strptime with the month token of length mlen and the day token of length dlen
StrptimeTokens(v, mlen, dlen) ==
    IF /\ DigitsAt(v, 1, 4) /\ CharAt(v, 5, "-")
       /\ mlen > 0 /\ CharAt(v, 6 + mlen, "-")
       /\ dlen > 0 /\ Len(v) = 6 + mlen + dlen
    THEN MakeDatetime(Num(v, 1, 4), Num(v, 6, mlen),
                      IF CharAt(v, 7 + mlen, " ") THEN Num(v, 8 + mlen, 1)
                      ELSE Num(v, 7 + mlen, dlen),
                      0, 0, 0, 0)
    ELSE DtRaise("ValueError")

\* datetime.strptime(value, '%Y-%m-%d'): four digits, "-", a month token, "-", a day
\* token; ValueError when the string does not match, when characters remain after
\* the match, or when the day does not exist
Strptime(v) == StrptimeTokens(v, MonthToken(v), DayToken(v, 7 + MonthToken(v)))

\* the try/except of _decode_date, decoded being the outcome of strptime
DateOrFallback(decoded, value, tz_flag, zone) ==
    IF decoded.exc = ""
    THEN Ok(DatetimeVal(decoded.dt, NoTz))
    ELSE _decode_datetime(value, tz_flag, zone)

\* _decode_date(value, include_tz)
_decode_date(value, tz_flag, zone) == DateOrFallback(Strptime(value), value, tz_flag, zone)

-----------------------------------------------------------------------------
(* The other decoders *)

\* value.split(',')
RECURSIVE SplitComma(_)
SplitComma(v) ==
    IF \A i \in 1..Len(v) : v[i] # ","
    THEN <<v>>
    ELSE LET i == CHOOSE j \in 1..Len(v) : v[j] = "," /\ \A h \in 1..(j - 1) : v[h] # ","
         IN  <<SubSeq(v, 1, i - 1)>> \o SplitComma(SubSeq(v, i + 1, Len(v)))

\* str.strip() of blanks, which int() and Decimal() apply to their argument
RECURSIVE Strip(_)
Strip(v) ==
    IF Len(v) > 0 /\ v[1] = " " THEN Strip(Tail(v))
    ELSE IF Len(v) > 0 /\ v[Len(v)] = " " THEN Strip(SubSeq(v, 1, Len(v) - 1))
    ELSE v

HasSign(v) == CharAt(v, 1, "+") \/ CharAt(v, 1, "-")

Unsigned(v) == IF HasSign(v) THEN Tail(v) ELSE v

\* the digits of v, its underscores dropped
RECURSIVE DropUnderscores(_)
DropUnderscores(v) ==
    IF v = <<>> THEN <<>>
    ELSE IF v[1] = "_" THEN DropUnderscores(Tail(v))
    ELSE <<v[1]>> \o DropUnderscores(Tail(v))

\* int() of a stripped numeral: negative tells the sign, body is the rest
IntOfBody(negative, body, digits) ==
    IF /\ Len(body) > 0
       /\ \A i \in 1..Len(body) : IsDigit(body[i]) \/ body[i] = "_"
       /\ IsDigit(body[1]) /\ IsDigit(body[Len(body)])
       /\ \A i \in 1..(Len(body) - 1) : ~(body[i] = "_" /\ body[i + 1] = "_")
    THEN Ok(IntVal(IF negative THEN -Num(digits, 1, Len(digits))
                   ELSE Num(digits, 1, Len(digits))))
    ELSE Raise("ValueError")

\* int(value): blanks stripped, an optional sign, then digits, single underscores
\* allowed between digits; ValueError otherwise
ParseInt(value) ==
    IntOfBody(CharAt(Strip(value), 1, "-"), Unsigned(Strip(value)),
              DropUnderscores(Unsigned(Strip(value))))

\* Decimal() of a stripped numeral whose points are at the positions points
DecimalOfBody(negative, body, points, digits) ==
    IF /\ Cardinality(points) <= 1
       /\ Len(digits) > 0
       /\ \A i \in 1..Len(digits) : IsDigit(digits[i])
    THEN Ok(DecimalVal(IF negative THEN -Num(digits, 1, Len(digits))
                       ELSE Num(digits, 1, Len(digits)),
                       IF points = {} THEN 0 ELSE -(Len(body) - (CHOOSE i \in points : TRUE))))
    ELSE Raise("InvalidOperation")

\* body without its points
RECURSIVE DropPoints(_)
DropPoints(v) ==
    IF v = <<>> THEN <<>>
    ELSE IF v[1] = "." THEN DropPoints(Tail(v))
    ELSE <<v[1]>> \o DropPoints(Tail(v))

PointsOf(body) == {i \in 1..Len(body) : body[i] = "."}

\* Decimal(value) for plain decimal numerals: blanks stripped, an optional sign,
\* digits with at most one point and at least one digit; the exact value is the
\* coefficient times ten to the exponent. decimal.InvalidOperation otherwise.
ParseDecimal(value) ==
    DecimalOfBody(CharAt(Strip(value), 1, "-"), Unsigned(Strip(value)),
                  PointsOf(Unsigned(Strip(value))), DropPoints(Unsigned(Strip(value))))

-----------------------------------------------------------------------------
(* The decoder registry *)

_LOOKUP_TYPE == "Lookup"

_LOOKUP_MULTI_TYPES == {"LookupMulti", "LookupBitstring", "LookupBitmask"}

\* _TIMEZONE_AWARE_DECODERS: data type -> the function stored under it
_TIMEZONE_AWARE_DECODERS ==
    [t \in {"DateTime", "Time", "Date"} |->
        CASE t = "DateTime" -> "_decode_datetime"
          [] t = "Time" -> "_decode_time"
          [] OTHER -> "_decode_date"]

\* _DECODERS: data type -> the function stored under it
_DECODERS ==
    [t \in {"Boolean", "Character", "Tiny", "Small", "Int", "Long", "Decimal", "Number",
            "Point"} |->
        CASE t = "Boolean" -> "bool"
          [] t \in {"Character", "Point"} -> "str"
          [] t = "Decimal" -> "Decimal"
          [] OTHER -> "int"]

\* a decoder: the function and, for partial(f, include_tz=...), the bound flag
Decoder(fn, tz_flag) == [fn |-> fn, include_tz |-> tz_flag]

\* _get_decoder looking the data type up before the interpretation
_get_decoder_type_first(data_type, interpretation, tz_flag) ==
    IF data_type \in DOMAIN _TIMEZONE_AWARE_DECODERS
    THEN [exc |-> "", dec |-> Decoder(_TIMEZONE_AWARE_DECODERS[data_type], tz_flag)]
    ELSE IF data_type \in DOMAIN _DECODERS
    THEN [exc |-> "", dec |-> Decoder(_DECODERS[data_type], FALSE)]
    ELSE IF interpretation = _LOOKUP_TYPE
    THEN [exc |-> "", dec |-> Decoder("str", FALSE)]
    ELSE IF interpretation \in _LOOKUP_MULTI_TYPES
    THEN [exc |-> "", dec |-> Decoder("split", FALSE)]
    ELSE [exc |-> "RetsParseError", dec |-> Decoder("", FALSE)]

\* _get_decoder falling back to str for a data type it does not know
_get_decoder_lenient(data_type, interpretation, tz_flag) ==
    IF interpretation = _LOOKUP_TYPE
    THEN [exc |-> "", dec |-> Decoder("str", FALSE)]
    ELSE IF interpretation \in _LOOKUP_MULTI_TYPES
    THEN [exc |-> "", dec |-> Decoder("split", FALSE)]
    ELSE IF data_type \in DOMAIN _TIMEZONE_AWARE_DECODERS
    THEN [exc |-> "", dec |-> Decoder(_TIMEZONE_AWARE_DECODERS[data_type], tz_flag)]
    ELSE IF data_type \in DOMAIN _DECODERS
    THEN [exc |-> "", dec |-> Decoder(_DECODERS[data_type], FALSE)]
    ELSE [exc |-> "", dec |-> Decoder("str", FALSE)]

\* _get_decoder(data_type, interpretation, include_tz)
_get_decoder(data_type, interpretation, tz_flag) ==
    IF interpretation = _LOOKUP_TYPE
    THEN [exc |-> "", dec |-> Decoder("str", FALSE)]
    ELSE IF interpretation \in _LOOKUP_MULTI_TYPES
    THEN [exc |-> "", dec |-> Decoder("split", FALSE)]
    ELSE IF data_type \in DOMAIN _TIMEZONE_AWARE_DECODERS
    THEN [exc |-> "", dec |-> Decoder(_TIMEZONE_AWARE_DECODERS[data_type], tz_flag)]
    ELSE IF data_type \in DOMAIN _DECODERS
    THEN [exc |-> "", dec |-> Decoder(_DECODERS[data_type], FALSE)]
    ELSE [exc |-> "RetsParseError", dec |-> Decoder("", FALSE)]

\* decoder(value): the call of a decoder _get_decoder returned
CallDecoder(dec, value, zone) ==
    CASE dec.fn = "str" -> Ok(StrVal(value))
      [] dec.fn = "split" -> Ok(ListVal(SplitComma(value)))
      [] dec.fn = "bool" -> Ok(BoolVal(value = <<"1">>))
      [] dec.fn = "int" -> ParseInt(value)
      [] dec.fn = "Decimal" -> ParseDecimal(value)
      [] dec.fn = "_decode_datetime" -> _decode_datetime(value, dec.include_tz, zone)
      [] dec.fn = "_decode_time" -> _decode_time(value, dec.include_tz, zone)
      [] dec.fn = "_decode_date" -> _decode_date(value, dec.include_tz, zone)

-----------------------------------------------------------------------------
(* RecordDecoder *)

Calls == {1, 2}

\* RecordDecoder.__init__: {field['SystemName']: field for field in table}; a later
\* descriptor of the same name replaces an earlier one
BuildMetadataMap(tbl) ==
    [name \in {tbl[i].SystemName : i \in 1..Len(tbl)} |->
        tbl[CHOOSE i \in 1..Len(tbl) :
                /\ tbl[i].SystemName = name
                /\ \A j \in (i + 1)..Len(tbl) : tbl[j].SystemName # name]]

\* tuple(row.keys())
Keys(row) == [i \in 1..Len(row) |-> row[i].field]

NoError == [type |-> "", field |-> "", value |-> <<>>, cause |-> "", data_type |-> ""]

NoResult == [status |-> "none", rows |-> <<>>, err |-> NoError]

Returned(decoded) == [status |-> "returned", rows |-> decoded, err |-> NoError]

\* RetsParseError('unknown data type %s' % data_type), raised "from None"
UnknownDataType(data_type) ==
    [status |-> "raised", rows |-> <<>>,
     err |-> [NoError EXCEPT !.type = "RetsParseError", !.data_type = data_type]]

\* FieldMetadata with Int as the fallback type
FieldMetadata_int_fallback(map, field) ==
    IF field \in DOMAIN map
    THEN map[field]
    ELSE [SystemName |-> field, DataType |-> "Int", Interpretation |-> ""]

\* field_metadata of one iteration of _build_decoders: the descriptor, or the
\* Character fallback when the field is not in the table
FieldMetadata(map, field) ==
    IF field \in DOMAIN map
    THEN map[field]
    ELSE [SystemName |-> field, DataType |-> "Character", Interpretation |-> ""]

\* WrapError letting the exception of the decoder through as it is
WrapError_unwrapped(res) ==
    IF res.exc # ""
    THEN [exc |-> res.exc, cause |-> "", val |-> NoneVal, called |-> TRUE]
    ELSE [exc |-> "", cause |-> "", val |-> res.val, called |-> TRUE]

\* the try/except of decode_field around the call of the decoder
WrapError(res) ==
    IF res.exc # ""
    THEN [exc |-> "ValueError", cause |-> res.exc, val |-> NoneVal, called |-> TRUE]
    ELSE [exc |-> "", cause |-> "", val |-> res.val, called |-> TRUE]

\* decode_field without the test for the empty string
decode_field_no_empty_test(decs, field, value, zone) ==
    IF field \notin DOMAIN decs
    THEN [exc |-> "ValueError", cause |-> "KeyError", val |-> NoneVal, called |-> FALSE]
    ELSE WrapError(CallDecoder(decs[field], value, zone))

\* decode_field passing the value of a field without decoder through as a string
decode_field_default_str(decs, field, value, zone) ==
    IF value = <<>>
    THEN [exc |-> "", cause |-> "", val |-> NoneVal, called |-> FALSE]
    ELSE IF field \notin DOMAIN decs
    THEN [exc |-> "", cause |-> "", val |-> StrVal(value), called |-> FALSE]
    ELSE WrapError(CallDecoder(decs[field], value, zone))

\* decode_field(field, value) with the decoders of the call: the decoded value, or
\* the exception raised and its cause; called says whether a decoder was invoked
decode_field(decs, field, value, zone) ==
    IF value = <<>>
    THEN [exc |-> "", cause |-> "", val |-> NoneVal, called |-> FALSE]
    ELSE IF field \notin DOMAIN decs
    THEN [exc |-> "ValueError", cause |-> "KeyError", val |-> NoneVal, called |-> FALSE]
    ELSE WrapError(CallDecoder(decs[field], value, zone))

StartPos == [i |-> 1, r |-> 1, k |-> 1]

\* decode(rows) is entered: an empty batch returns () at once, otherwise
\* _build_decoders starts on the keys of the first row
Call(c, batch) ==
    /\ pc[c] = "idle"
    /\ rows' = [rows EXCEPT ![c] = batch]
    /\ fields' = [fields EXCEPT ![c] = IF batch = <<>> THEN <<>> ELSE Keys(batch[1])]
    /\ pc' = [pc EXCEPT ![c] = IF batch = <<>> THEN "returned"
                               ELSE IF batch[1] = <<>> THEN "decode" ELSE "build"]
    /\ result' = [result EXCEPT ![c] = IF batch = <<>> THEN Returned(<<>>) ELSE NoResult]
    /\ UNCHANGED <<table, metadata_map, include_tz, local_tz, decoders, pos, cur, out,
                   warned, trace>>

\* StoreDecoder keeping the decoders on the instance, one dict for all calls
StoreDecoder_shared(c, field, data_type, got) ==
    /\ warned' = [warned EXCEPT ![c] = IF field \in DOMAIN metadata_map
                                       THEN @ ELSE Append(@, field)]
    /\ IF got.exc # ""
       THEN /\ pc' = [pc EXCEPT ![c] = "raised"]
            /\ result' = [result EXCEPT ![c] = UnknownDataType(data_type)]
            /\ UNCHANGED <<decoders, pos>>
       ELSE /\ decoders' = [x \in Calls |-> IF pos[c].i = 1
                                            THEN [f \in {field} |-> got.dec]
                                            ELSE [f \in DOMAIN decoders[c] \cup {field} |->
                                                    IF f = field THEN got.dec
                                                    ELSE decoders[c][f]]]
            /\ pos' = [pos EXCEPT ![c].i = @ + 1]
            /\ pc' = [pc EXCEPT ![c] = IF pos[c].i = Len(fields[c])
                                       THEN "decode" ELSE "build"]
            /\ UNCHANGED result

\* one iteration of the loop of _build_decoders for field, got being what
\* _get_decoder returned or raised
StoreDecoder(c, field, data_type, got) ==
    /\ warned' = [warned EXCEPT ![c] = IF field \in DOMAIN metadata_map
                                       THEN @ ELSE Append(@, field)]
    /\ IF got.exc # ""
       THEN /\ pc' = [pc EXCEPT ![c] = "raised"]
            /\ result' = [result EXCEPT ![c] = UnknownDataType(data_type)]
            /\ UNCHANGED <<decoders, pos>>
       ELSE /\ decoders' = [decoders EXCEPT ![c] =
                               [f \in DOMAIN @ \cup {field} |->
                                   IF f = field THEN got.dec ELSE @[f]]]
            /\ pos' = [pos EXCEPT ![c].i = @ + 1]
            /\ pc' = [pc EXCEPT ![c] = IF pos[c].i = Len(fields[c])
                                       THEN "decode" ELSE "build"]
            /\ UNCHANGED result

ResolveDecoder(c, field, field_metadata) ==
    StoreDecoder(c, field, field_metadata.DataType,
                 _get_decoder(field_metadata.DataType, field_metadata.Interpretation,
                              include_tz))

\* one iteration of the loop of _build_decoders
BuildDecoder(c) ==
    /\ pc[c] = "build"
    /\ ResolveDecoder(c, fields[c][pos[c].i], FieldMetadata(metadata_map, fields[c][pos[c].i]))
    /\ UNCHANGED <<table, metadata_map, include_tz, local_tz, rows, fields, cur, out, trace>>

\* the pair (item.field, d.val) joins the row, or the exception of decode_field
\* ends the call
StoreField(c, item, d) ==
    /\ trace' = [trace EXCEPT ![c] =
                    Append(@, [field |-> item.field, value |-> item.value,
                               called |-> d.called])]
    /\ IF d.exc # ""
       THEN /\ pc' = [pc EXCEPT ![c] = "raised"]
            /\ result' = [result EXCEPT ![c] =
                             [status |-> "raised", rows |-> <<>>,
                              err |-> [NoError EXCEPT !.type = d.exc,
                                                      !.field = item.field,
                                                      !.value = item.value,
                                                      !.cause = d.cause]]]
            /\ UNCHANGED <<cur, pos>>
       ELSE /\ cur' = [cur EXCEPT ![c] = Append(@, [field |-> item.field, value |-> d.val])]
            /\ pos' = [pos EXCEPT ![c].k = @ + 1]
            /\ UNCHANGED <<pc, result>>

DecodeItem(c, item) ==
    StoreField(c, item, decode_field(decoders[c], item.field, item.value, local_tz))

\* one (field, value) pair of the row being decoded
DecodeField(c) ==
    /\ pc[c] = "decode"
    /\ pos[c].k <= Len(rows[c][pos[c].r])
    /\ DecodeItem(c, rows[c][pos[c].r][pos[c].k])
    /\ UNCHANGED <<table, metadata_map, include_tz, local_tz, rows, fields, decoders, out,
                   warned>>

\* the OrderedDict of a row is complete; after the last row the tuple is returned
EndRow(c) ==
    /\ pc[c] = "decode"
    /\ pos[c].k > Len(rows[c][pos[c].r])
    /\ out' = [out EXCEPT ![c] = Append(@, cur[c])]
    /\ cur' = [cur EXCEPT ![c] = <<>>]
    /\ IF pos[c].r = Len(rows[c])
       THEN /\ pc' = [pc EXCEPT ![c] = "returned"]
            /\ result' = [result EXCEPT ![c] = Returned(Append(out[c], cur[c]))]
            /\ UNCHANGED pos
       ELSE /\ pos' = [pos EXCEPT ![c].r = @ + 1, ![c].k = 1]
            /\ UNCHANGED <<pc, result>>
    /\ UNCHANGED <<table, metadata_map, include_tz, local_tz, rows, fields, decoders,
                   warned, trace>>

\* the caller has the outcome; the frame of the call (rows, decoders, ...) is gone
Finish(c) ==
    /\ pc[c] \in {"returned", "raised"}
    /\ pc' = [pc EXCEPT ![c] = "idle"]
    /\ rows' = [rows EXCEPT ![c] = <<>>]
    /\ fields' = [fields EXCEPT ![c] = <<>>]
    /\ decoders' = [decoders EXCEPT ![c] = <<>>]
    /\ pos' = [pos EXCEPT ![c] = StartPos]
    /\ cur' = [cur EXCEPT ![c] = <<>>]
    /\ out' = [out EXCEPT ![c] = <<>>]
    /\ result' = [result EXCEPT ![c] = NoResult]
    /\ warned' = [warned EXCEPT ![c] = <<>>]
    /\ trace' = [trace EXCEPT ![c] = <<>>]
    /\ UNCHANGED <<table, metadata_map, include_tz, local_tz>>

\* the state after RecordDecoder(tbl, flag) in a process whose local zone is zone
Constructed(tbl, flag, zone) ==
    /\ table = tbl
    /\ metadata_map = BuildMetadataMap(tbl)
    /\ include_tz = flag
    /\ local_tz = zone
    /\ pc = [c \in Calls |-> "idle"]
    /\ rows = [c \in Calls |-> <<>>]
    /\ fields = [c \in Calls |-> <<>>]
    /\ decoders = [c \in Calls |-> <<>>]
    /\ pos = [c \in Calls |-> StartPos]
    /\ cur = [c \in Calls |-> <<>>]
    /\ out = [c \in Calls |-> <<>>]
    /\ result = [c \in Calls |-> NoResult]
    /\ warned = [c \in Calls |-> <<>>]
    /\ trace = [c \in Calls |-> <<>>]

-----------------------------------------------------------------------------
(* The inputs: descriptor tables, local zones and batches of rows *)

MaxRows == 2

F(field, value) == [field |-> field, value |-> value]

Descriptor(name, data_type, interpretation) ==
    [SystemName |-> name, DataType |-> data_type, Interpretation |-> interpretation]

\* every data type of the registry, and one that is not in it
DataTypes == DOMAIN _DECODERS \cup DOMAIN _TIMEZONE_AWARE_DECODERS \cup {"Blob"}

\* no interpretation (""), the lookup tags, and a tag that is none of them
Interpretations == {"", _LOOKUP_TYPE, "Currency"} \cup _LOOKUP_MULTI_TYPES

UTCZone == [off |-> 0, gap_day |-> 0, gap_sec |-> 0, gap_len |-> 0]

\* five hours west of UTC, clocks jumping from 02:00 to 03:00 on 2020-03-08
GapZone == [off |-> -18000, gap_day |-> Ymd2Ord(2020, 3, 8), gap_sec |-> 7200,
            gap_len |-> 3600]

LocalZones == {UTCZone, GapZone}

\* tables describing field "a" in every way; tables with an Int field "b" before
\* "a"; the empty table; a table naming "a" twice
Tables ==
    {<<Descriptor("a", t, i)>> : t \in DataTypes, i \in Interpretations}
    \cup {<<Descriptor("b", "Int", ""), Descriptor("a", t, "")>> :
            t \in {"Int", "Character", "DateTime", "Blob"}}
    \cup {<<>>, <<Descriptor("a", "Int", ""), Descriptor("a", "Blob", "")>>}

SampleDatetime ==
    <<"2", "0", "2", "0", "-", "0", "5", "-", "0", "1", "T", "1", "2", ":", "0", "0", ":",
      "0", "0", "+", "0", "5", ":", "0", "0">>

\* raw values of field "a"
ValuesA == {<<>>, <<"1">>, <<"4", "2">>, <<"x">>, <<"A", ",", "B">>,
            <<"1", "2", ".", "5", "0">>, SampleDatetime}

\* the values of "a" in a row of two fields
ValuesPaired == {<<>>, <<"1">>, <<"x">>}

\* raw values of the other fields
ValuesB == {<<>>, <<"x">>}

\* first rows: "a" alone, before "b", after "c" (a field no table describes)
FirstRows ==
    {<<F("a", v)>> : v \in ValuesA}
    \cup {<<F("a", v), F("b", w)>> : v \in ValuesPaired, w \in ValuesB}
    \cup {<<F("c", w), F("a", v)>> : v \in ValuesPaired, w \in ValuesB}
    \cup {<<>>}

\* later rows: the keys of the first row with one value for all of them, or that
\* with a field "d" the first row does not have, before or after them
LaterRows(first) ==
    LET same(u) == [i \in 1..Len(first) |-> F(first[i].field, u)]
    IN  {same(<<>>), same(<<"x">>)}
        \cup {<<F("d", <<>>)>> \o same(<<"1">>)}
        \cup {same(<<"x">>) \o <<F("d", <<"x">>)>>}

\* the batch b and its extensions by at most n later rows
RECURSIVE Grow(_, _)
Grow(b, n) ==
    IF n = 0 THEN {b}
    ELSE {b} \cup UNION {Grow(Append(b, r), n - 1) : r \in LaterRows(b[1])}

Batches == {<<>>} \cup UNION {Grow(<<first>>, MaxRows - 1) : first \in FirstRows}

-----------------------------------------------------------------------------
(* Specification: calls of decode, one after the other, on one instance *)

Init == \E tbl \in Tables, flag \in BOOLEAN : Constructed(tbl, flag, UTCZone)

Next ==
    \E c \in {1} :
        \/ \E b \in Batches : Call(c, b)
        \/ BuildDecoder(c)
        \/ DecodeField(c)
        \/ EndRow(c)
        \/ Finish(c)

Spec == Init /\ [][Next]_vars

-----------------------------------------------------------------------------
(* Specification: two calls of decode on one instance, their steps interleaved *)

ConcTables ==
    {<<Descriptor("a", t, ""), Descriptor("b", "Int", "")>> : t \in {"Int", "Blob"}}
    \cup {<<Descriptor("a", "Character", "LookupMulti")>>}

ConcBatches ==
    {<<>>,
     <<<<F("a", <<"1">>), F("b", <<"x">>)>>>>,
     <<<<F("b", <<"4", "2">>), F("c", <<"x">>)>>, <<F("a", <<"1">>), F("b", <<>>)>>>>,
     <<<<F("c", <<"A", ",", "B">>)>>, <<F("c", <<>>)>>>>,
     <<<<F("a", <<"A", ",", "B">>)>>, <<F("a", <<"4", "2">>)>>>>}

InitConc == \E tbl \in ConcTables, flag \in BOOLEAN : Constructed(tbl, flag, UTCZone)

NextConc ==
    \E c \in Calls :
        \/ \E b \in ConcBatches : Call(c, b)
        \/ BuildDecoder(c)
        \/ DecodeField(c)
        \/ EndRow(c)
        \/ Finish(c)

SpecConc == InitConc /\ [][NextConc]_vars

-----------------------------------------------------------------------------
(* Specification: one temporal field, its values drawn from the literals of the *)
(* grammar YYYY-MM-DD[(T| )HH:MM:SS[.f]][Z|(+|-)HH:MM] and from near misses     *)

NoClock == <<-1, -1, -1>>

NoZone == <<"", 0, 0>>

\* valid calendar days: an ordinary day, both sides of month, leap-day and year
\* boundaries, the day of GapZone's gap, the first and the last day of datetime
Dates == {<<2020, 5, 1>>, <<2020, 2, 29>>, <<2020, 3, 1>>, <<2019, 12, 31>>, <<2020, 1, 1>>,
          <<2020, 3, 8>>, <<MINYEAR, 1, 1>>, <<MAXYEAR, 12, 31>>}

Clocks == {NoClock, <<12, 0, 0>>, <<23, 30, 0>>, <<0, 10, 0>>, <<2, 30, 0>>}

\* the zone suffix: none, Z, or a sign with hours and minutes
Zones == {NoZone, <<"Z", 0, 0>>, <<"+", 5, 0>>, <<"-", 0, 45>>, <<"-", 5, 0>>,
          <<"+", 99, 99>>}

\* what a literal says: its date, its clock (NoClock: no time of day), its
\* fraction digit (-1: none) and its zone suffix
Components ==
    {[date |-> d, clock |-> k, fraction |-> f, zone |-> z] :
        d \in Dates, k \in Clocks, f \in {-1, 5}, z \in Zones}
    \ {[date |-> d, clock |-> NoClock, fraction |-> 5, zone |-> z] : d \in Dates, z \in Zones}

ClockText(sep, k, f) ==
    IF k = NoClock THEN <<>>
    ELSE sep \o Pad2(k[1]) \o <<":">> \o Pad2(k[2]) \o <<":">> \o Pad2(k[3])
         \o (IF f = -1 THEN <<>> ELSE <<".", DigitChars[f + 1]>>)

ZoneText(z) ==
    IF z[1] = "" THEN <<>>
    ELSE IF z[1] = "Z" THEN <<"Z">>
    ELSE <<z[1]>> \o Pad2(z[2]) \o <<":">> \o Pad2(z[3])

DateText(d) == Pad4(d[1]) \o <<"-">> \o Pad2(d[2]) \o <<"-">> \o Pad2(d[3])

\* the datetime literal of c, extra being written between the time and the zone
LiteralWith(c, sep, extra) ==
    DateText(c.date) \o ClockText(sep, c.clock, c.fraction) \o extra \o ZoneText(c.zone)

\* the literal of c as a DateTime or Date field carries it
Literal(c) == LiteralWith(c, <<"T">>, <<>>)

\* the literal of c as a Time field carries it: no date
TimeLiteral(c) == ClockText(<<>>, c.clock, c.fraction) \o ZoneText(c.zone)

\* the literals of the grammar, with "T" and with " " before the time
Literals == {LiteralWith(c, sep, <<>>) : c \in Components, sep \in {<<"T">>, <<" ">>}}

TimeLiterals == {TimeLiteral(c) : c \in {x \in Components : x.clock # NoClock /\ x.date = <<2020, 5, 1>>}}

\* near misses: a literal followed by a character, a literal with further fraction
\* digits before the zone, days no calendar has, dates strptime alone accepts,
\* strings with no valid prefix
NearMisses ==
    {Literal(c) \o <<"x">> : c \in {x \in Components : x.date = <<2020, 5, 1>>}}
    \cup {LiteralWith(c, <<"T">>, <<"2", "3">>) :
            c \in {x \in Components : x.fraction # -1 /\ x.date = <<2020, 5, 1>>}}
    \cup {<<"2", "0", "2", "0", "-", "1", "3", "-", "0", "1">>,
          <<"2", "0", "1", "9", "-", "0", "2", "-", "2", "9">>,
          <<"2", "0", "2", "0", "-", "5", "-", "1">>,
          <<"0", "0", "0", "0", "-", "0", "1", "-", "0", "1">>,
          <<"2", "0", "2", "0", "-", "0", "5", "-", "0", "1", "T", "1", "2", ":", "0", "0">>,
          <<"x">>, <<>>}

TemporalValues == Literals \cup TimeLiterals \cup NearMisses

TemporalBatches == {<<<<F("a", v)>>>> : v \in TemporalValues}

TemporalTables == {<<Descriptor("a", t, "")>> : t \in DOMAIN _TIMEZONE_AWARE_DECODERS}

InitTemporal ==
    \E tbl \in TemporalTables, flag \in BOOLEAN, zone \in LocalZones :
        Constructed(tbl, flag, zone)

NextTemporal ==
    \E c \in {1} :
        \/ \E b \in TemporalBatches : Call(c, b)
        \/ BuildDecoder(c)
        \/ DecodeField(c)
        \/ EndRow(c)
        \/ Finish(c)

SpecTemporal == InitTemporal /\ [][NextTemporal]_vars

-----------------------------------------------------------------------------
(* What the claims speak of *)

\* the lookup tags and the enumerated data types, as the specification lists them
LookupTags == {"Lookup", "LookupMulti", "LookupBitstring", "LookupBitmask"}

MultiTags == {"LookupMulti", "LookupBitstring", "LookupBitmask"}

EnumeratedTypes == {"Boolean", "Character", "Point", "Tiny", "Small", "Int", "Long", "Number",
                    "Decimal", "Date", "Time", "DateTime"}

IntegerTypes == {"Tiny", "Small", "Int", "Long", "Number"}

Ended(c) == pc[c] \in {"returned", "raised"}

\* a call of decode on a batch that is not empty
OnBatch(c) == pc[c] # "idle" /\ rows[c] # <<>>

FirstRowFields(c) == {rows[c][1][k].field : k \in 1..Len(rows[c][1])}

\* the fields of the first row that the table does not describe
MissingFields(c) == {f \in FirstRowFields(c) : f \notin DOMAIN metadata_map}

Positions(c) == UNION {{<<r, k>> : k \in 1..Len(rows[c][r])} : r \in 1..Len(rows[c])}

RawAt(c, p) == rows[c][p[1]][p[2]]

\* the positions decoded so far: the finished rows and the row in progress
DecodedPositions(c) ==
    {p \in Positions(c) : \/ p[1] <= Len(out[c])
                          \/ p[1] = Len(out[c]) + 1 /\ p[2] <= Len(cur[c])}

DecodedAt(c, p) == IF p[1] <= Len(out[c]) THEN out[c][p[1]][p[2]].value ELSE cur[c][p[2]].value

\* the number of (field, value) pairs before position p, rows first
RECURSIVE PairsBefore(_, _)
PairsBefore(c, p) ==
    IF p[1] = 1 THEN p[2] - 1
    ELSE Len(rows[c][p[1] - 1]) + PairsBefore(c, <<p[1] - 1, p[2]>>)

RECURSIVE JoinComma(_)
JoinComma(l) == IF Len(l) = 1 THEN l[1] ELSE l[1] \o <<",">> \o JoinComma(Tail(l))

Count(seq, x) == Cardinality({i \in 1..Len(seq) : seq[i] = x})

DecodeError(c) == result[c].status = "raised" /\ result[c].err.type # "RetsParseError"

UnknownTypeError(c) == result[c].status = "raised" /\ result[c].err.type = "RetsParseError"

\* the descriptor of field f has a data type outside the enumerated set and no
\* lookup tag
UnknownType(f) ==
    /\ f \in DOMAIN metadata_map
    /\ metadata_map[f].DataType \notin EnumeratedTypes
    /\ metadata_map[f].Interpretation \notin LookupTags

-----------------------------------------------------------------------------
(* C1: in decode, once the decoders are resolved, every field whose raw value is
   the empty string decodes to None, whatever its DataType and Interpretation
   (lookup fields and fields with no metadata included), and no decoder is invoked
   for that value; so an empty value never makes the call raise. *)
C1_EmptyDecodesToNone ==
    \A c \in Calls :
        /\ \A p \in DecodedPositions(c) :
               RawAt(c, p).value = <<>> => DecodedAt(c, p) = NoneVal
        /\ \A t \in 1..Len(trace[c]) : trace[c][t].value = <<>> => ~trace[c][t].called
        /\ DecodeError(c) => result[c].err.value # <<>>
        /\ result[c].status = "returned" =>
               \A p \in Positions(c) :
                   RawAt(c, p).value = <<>> => result[c].rows[p[1]][p[2]].value = NoneVal

\* a call returned None for the empty value of a LookupMulti field and for the
\* empty value of a field with no metadata
C1_Witness ==
    \E c \in Calls :
        /\ result[c].status = "returned"
        /\ \E p \in Positions(c) :
               /\ RawAt(c, p).value = <<>>
               /\ RawAt(c, p).field \in DOMAIN metadata_map
               /\ metadata_map[RawAt(c, p).field].Interpretation = "LookupMulti"
               /\ result[c].rows[p[1]][p[2]].value = NoneVal
        /\ \E p \in Positions(c) :
               /\ RawAt(c, p).value = <<>>
               /\ RawAt(c, p).field \notin DOMAIN metadata_map
               /\ result[c].rows[p[1]][p[2]].value = NoneVal

(* C2: _get_decoder looks at the interpretation before the data type: for every
   data type, enumerated or not, a Lookup field gets the identity-string decoder
   and a LookupMulti, LookupBitstring or LookupBitmask field the comma split
   (ordered, nothing trimmed, nothing dropped), and no unknown-data-type error is
   raised for them; the data type decides only for the other interpretations. *)
C2_InterpretationBeforeType ==
    \A c \in Calls :
        /\ \A f \in DOMAIN decoders[c] :
               /\ FieldMetadata(metadata_map, f).Interpretation = "Lookup"
                      => decoders[c][f].fn = "str"
               /\ FieldMetadata(metadata_map, f).Interpretation \in MultiTags
                      => decoders[c][f].fn = "split"
        /\ \A p \in DecodedPositions(c) :
               (RawAt(c, p).value # <<>> /\ RawAt(c, p).field \in FirstRowFields(c)) =>
                   LET md == FieldMetadata(metadata_map, RawAt(c, p).field)
                       raw == RawAt(c, p).value
                       v == DecodedAt(c, p)
                   IN  /\ md.Interpretation = "Lookup" => v = StrVal(raw)
                       /\ md.Interpretation \in MultiTags =>
                              /\ v.kind = "list"
                              /\ JoinComma(v.l) = raw
                              /\ \A i \in 1..Len(v.l) : \A j \in 1..Len(v.l[i]) :
                                     v.l[i][j] # ","
                       /\ (md.Interpretation \notin LookupTags /\ md.DataType \in IntegerTypes)
                              => v.kind = "int"
                       /\ (md.Interpretation \notin LookupTags
                           /\ md.DataType \in {"Character", "Point"}) => v = StrVal(raw)
        /\ UnknownTypeError(c) =>
               LET md == FieldMetadata(metadata_map, fields[c][pos[c].i])
               IN  /\ md.Interpretation \notin LookupTags
                   /\ md.DataType \notin EnumeratedTypes
        /\ (DecodeError(c) /\ result[c].err.field \in FirstRowFields(c)) =>
               FieldMetadata(metadata_map, result[c].err.field).Interpretation \notin LookupTags

\* a field of the unknown type Blob tagged LookupBitmask decoded "A,B" to the list
\* of "A" and "B", and a field of type Int tagged Lookup decoded "42" to a string
C2_Witness ==
    \E c \in Calls :
        /\ result[c].status = "returned"
        /\ "a" \in DOMAIN metadata_map
        /\ \E p \in Positions(c) :
               /\ RawAt(c, p).field = "a"
               /\ \/ /\ metadata_map["a"].DataType = "Blob"
                     /\ metadata_map["a"].Interpretation = "LookupBitmask"
                     /\ RawAt(c, p).value = <<"A", ",", "B">>
                     /\ result[c].rows[p[1]][p[2]].value = ListVal(<<<<"A">>, <<"B">>>>)
                  \/ /\ metadata_map["a"].DataType = "Int"
                     /\ metadata_map["a"].Interpretation = "Lookup"
                     /\ RawAt(c, p).value = <<"4", "2">>
                     /\ result[c].rows[p[1]][p[2]].value = StrVal(<<"4", "2">>)

(* C3: when a field of the first row has a descriptor whose DataType is outside
   the enumerated set and whose Interpretation is no lookup tag, decode on a batch
   that is not empty raises the unknown-data-type error before any value of any
   row is decoded, also when every value of that field is empty, and no field
   decode error of another value is raised in its place. *)
C3_UnknownTypeBeforeAnyValue ==
    \A c \in Calls :
        (OnBatch(c) /\ \E f \in FirstRowFields(c) : UnknownType(f)) =>
            /\ pc[c] \in {"build", "raised"}
            /\ trace[c] = <<>> /\ cur[c] = <<>> /\ out[c] = <<>>
            /\ pc[c] = "raised" => (UnknownTypeError(c) /\ result[c].rows = <<>>)

\* the unknown-data-type error was raised for a batch in which the field of the
\* unknown type is empty and another field holds a value its decoder rejects
C3_Witness ==
    \E c \in Calls :
        /\ UnknownTypeError(c)
        /\ UnknownType("a")
        /\ "b" \in DOMAIN metadata_map /\ metadata_map["b"].DataType = "Int"
        /\ rows[c][1] = <<F("a", <<>>), F("b", <<"x">>)>>

\* decoding the value at position p raises, with the decoders of call c
Fails(c, p) ==
    /\ RawAt(c, p).value # <<>>
    /\ \/ RawAt(c, p).field \notin DOMAIN decoders[c]
       \/ CallDecoder(decoders[c][RawAt(c, p).field], RawAt(c, p).value, local_tz).exc # ""

\* the position of the value decode_field was last called with
LastPosition(c) == CHOOSE p \in Positions(c) : PairsBefore(c, p) + 1 = Len(trace[c])

(* C4: when decoding a non-empty value raises, decode ends with one decode error
   that names the field and the raw value of the first failing value (rows in
   order, the fields of a row in order) and carries the exception as its cause;
   the call returns no rows, the rows decoded before the failing value included. *)
C4_FirstFailureWrapped ==
    \A c \in Calls :
        /\ \A p \in Positions(c) :
               PairsBefore(c, p) < Len(trace[c]) =>
                   /\ trace[c][PairsBefore(c, p) + 1].field = RawAt(c, p).field
                   /\ trace[c][PairsBefore(c, p) + 1].value = RawAt(c, p).value
        /\ DecodeError(c) =>
               /\ trace[c] # <<>>
               /\ Fails(c, LastPosition(c))
               /\ \A p \in Positions(c) :
                      PairsBefore(c, p) + 1 < Len(trace[c]) => ~Fails(c, p)
               /\ result[c].err.type = "ValueError"
               /\ result[c].err.field = RawAt(c, LastPosition(c)).field
               /\ result[c].err.value = RawAt(c, LastPosition(c)).value
               /\ result[c].err.cause # ""
               /\ result[c].rows = <<>>
        /\ (pc[c] \in {"decode", "returned"} /\ rows[c] # <<>>) =>
               \A p \in Positions(c) : PairsBefore(c, p) < Len(trace[c]) => ~Fails(c, p)
        /\ (pc[c] = "returned" /\ rows[c] # <<>>) =>
               \A p \in Positions(c) : PairsBefore(c, p) < Len(trace[c])

\* a value of the second row failed after the first row was decoded: the error
\* names it, its cause is the ValueError of int(), and no row is returned
C4_Witness ==
    \E c \in Calls :
        /\ DecodeError(c)
        /\ Len(out[c]) = 1 /\ Len(out[c][1]) > 0
        /\ result[c].rows = <<>>
        /\ result[c].err.cause = "ValueError"
        /\ result[c].err.field = RawAt(c, LastPosition(c)).field
        /\ LastPosition(c)[1] = 2

\* field f has a field of unknown type before it in the first row
UnknownBefore(c, f) ==
    \E i, j \in 1..Len(rows[c][1]) :
        i < j /\ rows[c][1][j].field = f /\ UnknownType(rows[c][1][i].field)

(* C5 as stated: in every call of decode on a batch that is not empty, each field
   of the first row that the table does not describe causes exactly one warning,
   whatever the number of rows; its non-empty values decode to the raw string;
   the missing metadata never raises an error or stops decoding. *)
C5_ExactlyOneWarning ==
    \A c \in Calls :
        (Ended(c) /\ rows[c] # <<>>) =>
            \A f \in MissingFields(c) : Count(warned[c], f) = 1

(* C5 amended: each such field causes at most one warning, and exactly one unless
   the unknown-data-type error of a field before it in the first row has ended
   decoder resolution, in which case it causes none; only such fields are warned
   of; every non-empty value of such a field that is decoded is its raw string;
   and neither the unknown-data-type error nor a field decode error is ever
   raised for such a field. *)
C5_OneWarningUnlessAborted ==
    \A c \in Calls :
        OnBatch(c) =>
            /\ \A i \in 1..Len(warned[c]) : warned[c][i] \in MissingFields(c)
            /\ \A f \in MissingFields(c) :
                   /\ Count(warned[c], f) <= 1
                   /\ (pc[c] # "build" /\ ~UnknownBefore(c, f)) => Count(warned[c], f) = 1
                   /\ UnknownBefore(c, f) => Count(warned[c], f) = 0
            /\ \A p \in DecodedPositions(c) :
                   (RawAt(c, p).field \in MissingFields(c) /\ RawAt(c, p).value # <<>>)
                       => DecodedAt(c, p) = StrVal(RawAt(c, p).value)
            /\ UnknownTypeError(c) => fields[c][pos[c].i] \in DOMAIN metadata_map
            /\ DecodeError(c) => result[c].err.field \notin MissingFields(c)
            /\ result[c].status = "returned" =>
                   \A p \in Positions(c) :
                       (RawAt(c, p).field \in MissingFields(c) /\ RawAt(c, p).value # <<>>)
                           => result[c].rows[p[1]][p[2]].value = StrVal(RawAt(c, p).value)

\* a batch of two rows returned with one warning for the field "c" the table lacks,
\* its value "x" decoded to the string "x"
C5_Witness ==
    \E c \in Calls :
        /\ result[c].status = "returned"
        /\ Len(rows[c]) = 2
        /\ warned[c] = <<"c">>
        /\ rows[c][1][1] = F("c", <<"x">>)
        /\ result[c].rows[1][1].value = StrVal(<<"x">>)
        /\ result[c].rows[2][1].field = "c"

\* the positions of later rows whose field the first row does not have
ExtraPositions(c) == {p \in Positions(c) : RawAt(c, p).field \notin FirstRowFields(c)}

(* C10 as stated: a non-empty value of a field that a later row has and the first
   row lacks makes the whole call fail with the decode error naming that field
   and that value. *)
C10_ErrorNamesExtraField ==
    \A c \in Calls :
        Ended(c) =>
            \A p \in ExtraPositions(c) :
                RawAt(c, p).value # <<>> =>
                    /\ DecodeError(c)
                    /\ result[c].err.field = RawAt(c, p).field
                    /\ result[c].err.value = RawAt(c, p).value

(* C10 amended: decode never returns when a later row holds a non-empty value of
   a field the first row lacks, never applies a decoder to such a value and never
   yields it undecoded; when decode_field reaches the value, that is unless the
   unknown-data-type error or the decode error of an earlier value has ended the
   call, the call fails with the decode error naming that field and value, its
   cause the KeyError; an empty value of such a field decodes to None. *)
C10_ExtraFieldFailsWhenReached ==
    \A c \in Calls :
        /\ pc[c] = "returned" => \A p \in ExtraPositions(c) : RawAt(c, p).value = <<>>
        /\ \A p \in DecodedPositions(c) \cap ExtraPositions(c) :
               RawAt(c, p).value = <<>> /\ DecodedAt(c, p) = NoneVal
        /\ \A p \in ExtraPositions(c) :
               PairsBefore(c, p) < Len(trace[c]) => ~trace[c][PairsBefore(c, p) + 1].called
        /\ \A p \in ExtraPositions(c) :
               (RawAt(c, p).value # <<>> /\ PairsBefore(c, p) + 1 = Len(trace[c])) =>
                   /\ DecodeError(c)
                   /\ result[c].err.type = "ValueError"
                   /\ result[c].err.cause = "KeyError"
                   /\ result[c].err.field = RawAt(c, p).field
                   /\ result[c].err.value = RawAt(c, p).value
                   /\ result[c].rows = <<>>
        /\ Ended(c) =>
               \A p \in ExtraPositions(c) :
                   RawAt(c, p).value # <<>> =>
                       /\ result[c].status = "raised"
                       /\ DecodeError(c) => Len(trace[c]) <= PairsBefore(c, p) + 1

\* the second row's field "d", which the first row lacks, failed with the KeyError
\* after the first row and a value of the second row were decoded
C10_Witness ==
    \E c \in Calls :
        /\ DecodeError(c)
        /\ result[c].err.cause = "KeyError"
        /\ result[c].err.field = "d"
        /\ Len(out[c]) = 1 /\ Len(cur[c]) > 0
        /\ LastPosition(c) \in ExtraPositions(c)

-----------------------------------------------------------------------------
(* decode(batch) run alone, from its first statement to its last, on an instance *)
(* just built from a table and a flag                                            *)

Put(decs, field, dec) ==
    [f \in DOMAIN decs \cup {field} |-> IF f = field THEN dec ELSE decs[f]]

RECURSIVE BuildAlone(_, _, _, _)
BuildAloneStore(map, flag, keys, decs, data_type, got) ==
    IF got.exc # ""
    THEN [res |-> UnknownDataType(data_type), decs |-> decs]
    ELSE BuildAlone(map, flag, Tail(keys), Put(decs, keys[1], got.dec))

BuildAloneResolve(map, flag, keys, decs, field_metadata) ==
    BuildAloneStore(map, flag, keys, decs, field_metadata.DataType,
                    _get_decoder(field_metadata.DataType, field_metadata.Interpretation,
                                 flag))

BuildAlone(map, flag, keys, decs) ==
    IF keys = <<>>
    THEN [res |-> NoResult, decs |-> decs]
    ELSE BuildAloneResolve(map, flag, keys, decs, FieldMetadata(map, keys[1]))

RECURSIVE RowAlone(_, _, _, _)
RowAloneStore(decs, zone, row, acc, d) ==
    IF d.exc # ""
    THEN [res |-> [status |-> "raised", rows |-> <<>>,
                   err |-> [NoError EXCEPT !.type = d.exc, !.field = row[1].field,
                                           !.value = row[1].value, !.cause = d.cause]],
          row |-> <<>>]
    ELSE RowAlone(decs, zone, Tail(row), Append(acc, [field |-> row[1].field, value |-> d.val]))

RowAlone(decs, zone, row, acc) ==
    IF row = <<>>
    THEN [res |-> NoResult, row |-> acc]
    ELSE RowAloneStore(decs, zone, row, acc,
                       decode_field(decs, row[1].field, row[1].value, zone))

RECURSIVE RowsAlone(_, _, _, _)
RowsAloneNext(decs, zone, batch, acc, r) ==
    IF r.res.status = "raised"
    THEN r.res
    ELSE RowsAlone(decs, zone, Tail(batch), Append(acc, r.row))

RowsAlone(decs, zone, batch, acc) ==
    IF batch = <<>>
    THEN Returned(acc)
    ELSE RowsAloneNext(decs, zone, batch, acc, RowAlone(decs, zone, batch[1], <<>>))

DecodeAloneWith(zone, batch, built) ==
    IF built.res.status = "raised" THEN built.res ELSE RowsAlone(built.decs, zone, batch, <<>>)

DecodeAlone(tbl, flag, zone, batch) ==
    IF batch = <<>>
    THEN Returned(<<>>)
    ELSE DecodeAloneWith(zone, batch,
                         BuildAlone(BuildMetadataMap(tbl), flag, Keys(batch[1]), <<>>))

\* the decoders call c holds are those resolved from its own first row so far
OwnDecoders(c) ==
    /\ DOMAIN decoders[c] \subseteq FirstRowFields(c)
    /\ \A f \in DOMAIN decoders[c] :
           decoders[c][f] = _get_decoder(FieldMetadata(metadata_map, f).DataType,
                                         FieldMetadata(metadata_map, f).Interpretation,
                                         include_tz).dec

(* C9: under every interleaving of the steps of decode calls on one instance, no
   step changes the instance's metadata index or its include_tz flag, the decoders
   a call holds are those it resolved from its own first row, and the outcome of
   every call that has ended, the rows returned or the error raised, is the
   outcome of that call run alone on an instance just built from the same table
   and flag. *)
C9_CallsAreIsolated ==
    /\ [][metadata_map' = metadata_map /\ include_tz' = include_tz]_vars
    /\ [](\A c \in Calls :
            /\ metadata_map = BuildMetadataMap(table)
            /\ (pc[c] \in {"build", "decode"} /\ rows[c] # <<>>) => OwnDecoders(c)
            /\ Ended(c) => result[c] = DecodeAlone(table, include_tz, local_tz, rows[c]))

\* the first call has returned the rows of a batch while the second call, entered
\* with a batch of other fields, is in the middle of decoding its values
C9_Witness ==
    /\ pc[1] = "returned" /\ result[1].status = "returned" /\ result[1].rows # <<>>
    /\ pc[2] = "decode" /\ trace[2] # <<>>
    /\ FirstRowFields(2) # FirstRowFields(1)
    /\ result[1] = DecodeAlone(table, include_tz, local_tz, rows[1])

-----------------------------------------------------------------------------
(* What a temporal literal says, read off the components it was written from *)

\* the components of each literal
ComponentsOf ==
    [v \in Literals |->
        CHOOSE c \in Components : \E sep \in {<<"T">>, <<" ">>} : LiteralWith(c, sep, <<>>) = v]

TimeComponentsOf ==
    [v \in TimeLiterals |->
        CHOOSE c \in Components :
            c.clock # NoClock /\ c.date = <<2020, 5, 1>> /\ TimeLiteral(c) = v]

\* the wall clock c writes, a missing time of day being midnight
WallOf(c) ==
    [year |-> c.date[1], month |-> c.date[2], day |-> c.date[3],
     hour |-> IF c.clock = NoClock THEN 0 ELSE c.clock[1],
     minute |-> IF c.clock = NoClock THEN 0 ELSE c.clock[2],
     second |-> IF c.clock = NoClock THEN 0 ELSE c.clock[3],
     microsecond |-> IF c.fraction = -1 THEN 0 ELSE c.fraction * 100000]

\* the signed offset c writes, in seconds; Z and no suffix are the zero offset
OffsetOf(c) ==
    IF c.zone[1] = "+" THEN c.zone[2] * 3600 + c.zone[3] * 60
    ELSE IF c.zone[1] = "-" THEN -(c.zone[2] * 3600 + c.zone[3] * 60)
    ELSE 0

SecondOfDay(dt) == dt.hour * 3600 + dt.minute * 60 + dt.second

\* r is a datetime, and it is the wall clock a moved off seconds earlier
IsEarlierBy(r, a, off) ==
    /\ MakeDatetime(r.year, r.month, r.day, r.hour, r.minute, r.second, r.microsecond).exc = ""
    /\ (Ymd2Ord(r.year, r.month, r.day) - Ymd2Ord(a.year, a.month, a.day)) * SecondsPerDay
           + (SecondOfDay(r) - SecondOfDay(a)) = -off
    /\ r.microsecond = a.microsecond

\* the wall clock a moved off seconds earlier is a day of the years 0001..9999
Representable(a, off) ==
    /\ Ymd2Ord(a.year, a.month, a.day) + ((SecondOfDay(a) - off) \div SecondsPerDay) >= 1
    /\ Ymd2Ord(a.year, a.month, a.day) + ((SecondOfDay(a) - off) \div SecondsPerDay)
           <= Ymd2Ord(MAXYEAR, 12, 31)

\* the one value of the batch and the data type of its field, in SpecTemporal
TheValue(c) == rows[c][1][1].value

TheType == table[1].DataType

TheResult(c) == result[c].rows[1][1].value

\* v is, in its entirety, YYYY-MM-DD[(T| )HH:MM:SS[.f]][Z|(+|-)HH:MM]
InGrammar(v) ==
    \E tl \in {0, 9, 11}, zl \in {0, 1, 6} :
        /\ Len(v) = 10 + tl + zl
        /\ DigitsAt(v, 1, 4) /\ CharAt(v, 5, "-") /\ DigitsAt(v, 6, 2) /\ CharAt(v, 8, "-")
        /\ DigitsAt(v, 9, 2)
        /\ tl > 0 => /\ CharAt(v, 11, "T") \/ CharAt(v, 11, " ")
                     /\ DigitsAt(v, 12, 2) /\ CharAt(v, 14, ":") /\ DigitsAt(v, 15, 2)
                     /\ CharAt(v, 17, ":") /\ DigitsAt(v, 18, 2)
        /\ tl = 11 => CharAt(v, 20, ".") /\ DigitsAt(v, 21, 1)
        /\ zl = 1 => CharAt(v, 11 + tl, "Z")
        /\ zl = 6 => /\ CharAt(v, 11 + tl, "+") \/ CharAt(v, 11 + tl, "-")
                     /\ DigitsAt(v, 12 + tl, 2) /\ CharAt(v, 14 + tl, ":")
                     /\ DigitsAt(v, 15 + tl, 2)

(* C6 as stated: with include_tz true, a Date, Time or DateTime field whose value
   is a literal of the grammar decodes to a zone-aware value: its wall clock is
   the one the literal writes, its zone UTC for Z, the signed offset for
   (+|-)HH:MM, the zero offset for no suffix. *)
C6_ZoneAwareWithLiteralWallClock ==
    \A c \in Calls :
        (include_tz /\ Ended(c) /\ rows[c] # <<>>) =>
            /\ (TheType \in {"Date", "DateTime"} /\ TheValue(c) \in Literals) =>
                   /\ result[c].status = "returned"
                   /\ TheResult(c) = DatetimeVal(WallOf(ComponentsOf[TheValue(c)]),
                                                 [aware |-> TRUE,
                                                  off |-> OffsetOf(ComponentsOf[TheValue(c)])])
            /\ (TheType = "Time" /\ TheValue(c) \in TimeLiterals) =>
                   /\ result[c].status = "returned"
                   /\ TheResult(c) = TimeVal(WallOf(TimeComponentsOf[TheValue(c)]),
                                             [aware |-> TRUE,
                                              off |-> OffsetOf(TimeComponentsOf[TheValue(c)])])

(* C7 as stated: with include_tz false, a DateTime field whose value is a literal
   of the grammar decodes to the zone-naive value that is the literal's wall
   clock minus its signed offset, days, months and years carrying. *)
C7_NaiveWallClockMinusOffset ==
    \A c \in Calls :
        (~include_tz /\ Ended(c) /\ rows[c] # <<>> /\ TheType = "DateTime"
            /\ TheValue(c) \in Literals) =>
            /\ result[c].status = "returned"
            /\ TheResult(c).kind = "datetime"
            /\ TheResult(c).tz = NoTz
            /\ IsEarlierBy(TheResult(c).dt, WallOf(ComponentsOf[TheValue(c)]),
                           OffsetOf(ComponentsOf[TheValue(c)]))

(* C7 amended: with include_tz false, a DateTime field whose value is a literal of
   the grammar naming a day of the calendar and a time of day decodes to the
   zone-naive value that is the literal's wall clock minus its signed offset (a
   +HH:MM suffix HH:MM earlier, a -HH:MM suffix HH:MM later, Z or no suffix
   unchanged), days, months and years carrying, provided that value lies in
   0001-01-01..9999-12-31; when it does not, decode raises the decode error for
   the value, its cause an OverflowError. *)
C7_NaiveMinusOffsetWithinRange ==
    \A c \in Calls :
        (~include_tz /\ Ended(c) /\ rows[c] # <<>> /\ TheType = "DateTime"
            /\ TheValue(c) \in Literals) =>
            IF Representable(WallOf(ComponentsOf[TheValue(c)]),
                             OffsetOf(ComponentsOf[TheValue(c)]))
            THEN /\ result[c].status = "returned"
                 /\ TheResult(c).kind = "datetime"
                 /\ TheResult(c).tz = NoTz
                 /\ IsEarlierBy(TheResult(c).dt, WallOf(ComponentsOf[TheValue(c)]),
                                OffsetOf(ComponentsOf[TheValue(c)]))
            ELSE /\ DecodeError(c)
                 /\ result[c].err.type = "ValueError"
                 /\ result[c].err.cause = "OverflowError"
                 /\ result[c].err.value = TheValue(c)

\* 2019-12-31T23:30:00-00:45 decoded, with include_tz false, to the zone-naive
\* 2020-01-01 00:15:00: the offset carried the value into the next year
C7_Witness ==
    \E c \in Calls :
        /\ ~include_tz /\ TheType = "DateTime"
        /\ result[c].status = "returned" /\ rows[c] # <<>>
        /\ TheValue(c) = Literal([date |-> <<2019, 12, 31>>, clock |-> <<23, 30, 0>>,
                                  fraction |-> -1, zone |-> <<"-", 0, 45>>])
        /\ TheResult(c) = DatetimeVal([year |-> 2020, month |-> 1, day |-> 1, hour |-> 0,
                                       minute |-> 15, second |-> 0, microsecond |-> 0], NoTz)

(* C8 as stated: for a DateTime field, whatever include_tz is, a non-empty value
   that is not in its entirety a literal of the grammar never decodes to a value:
   decode raises a decode error for it. *)
C8_OffGrammarNeverDecodes ==
    \A c \in Calls :
        (Ended(c) /\ rows[c] # <<>> /\ TheType = "DateTime" /\ TheValue(c) # <<>>
            /\ ~InGrammar(TheValue(c))) =>
            /\ DecodeError(c)
            /\ result[c].err.value = TheValue(c)

====
